---- MODULE Spec2Model ----
(***************************************************************************)
(* Model of src/main.py: the in-memory TTL cache (cache, get_from_cache,   *)
(* set_cache, get_cache_key) and the get_transcript request handler with   *)
(* its language fallback loop and exception classification.                *)
(*                                                                         *)
(* Python values are modelled as follows.                                  *)
(*   Optional[T]   a sequence of length <= 1: << >> is None, <<v>> is v.   *)
(*   str           a TLA+ string; + and f-strings are \o.                   *)
(*   dict (cache)  a sequence of entries in dict iteration order, which is *)
(*                 insertion order: overwriting a key keeps its place, a   *)
(*                 deleted and re-inserted key goes to the end.            *)
(*   datetime      an integer number of clock ticks.                       *)
(***************************************************************************)
EXTENDS Integers, Sequences, FiniteSets, TLC

VARIABLES cache, now, API_KEY, CACHE_MAX_SIZE, resp, origin, inflight

vars == <<cache, now, API_KEY, CACHE_MAX_SIZE, resp, origin, inflight>>

(***************************************************************************)
(* Configuration.  API_KEY and CACHE_MAX_SIZE are set once, when the       *)
(* module is loaded, and never change; they are variables so that each     *)
(* specification can start from the configurations it covers.  Capacity    *)
(* and TTL are scaled down from the source's 256 entries and 3600 seconds  *)
(* so that eviction and expiry happen within the bounds.                   *)
(***************************************************************************)
CACHE_TTL_SECONDS == 2

(***************************************************************************)
(* Bounds of the model.                                                    *)
(***************************************************************************)
\* the clock is not advanced beyond MaxTime
MaxTime == 3
\* the most requests the server has accepted and not yet answered
MaxInFlight == 2
\* the most ticks that pass while one request talks to the provider
MaxDelay == 1

None == << >>
Some(v) == <<v>>

(***************************************************************************)
(* The cache: main.py 35, 60-84.                                           *)
(***************************************************************************)
CacheKeys(c) == {c[i].key : i \in 1..Len(c)}

\* key in cache
InCache(c, key) == \E i \in 1..Len(c) : c[i].key = key

\* cache[key]
Entry(c, key) == c[CHOOSE i \in 1..Len(c) : c[i].key = key]

\* del cache[key]
Del(c, key) == SelectSeq(c, LAMBDA e : e.key # key)

\* cache[key] = entry: an existing key keeps its place, a new one goes last
Put(c, key, entry) ==
    IF InCache(c, key)
    THEN [i \in 1..Len(c) |-> IF c[i].key = key THEN entry ELSE c[i]]
    ELSE Append(c, entry)

\* get_from_cache, were its expiry comparison the wrong way round
get_from_cache_reversed(c, key, t) ==
    IF ~InCache(c, key)
    THEN [result |-> None, cache |-> c]
    ELSE IF t < Entry(c, key).expires_at
         THEN [result |-> None, cache |-> Del(c, key)]
         ELSE [result |-> Some(Entry(c, key).data), cache |-> c]

\* get_from_cache, were it to drop every expired entry it comes across
get_from_cache_sweep(c, key, t) ==
    LET swept == SelectSeq(c, LAMBDA e : ~(t > e.expires_at))
    IN  IF InCache(swept, key)
        THEN [result |-> Some(Entry(swept, key).data), cache |-> swept]
        ELSE [result |-> None, cache |-> swept]

\* get_from_cache(key) called at time t: the returned Optional[dict] and the
\* cache it leaves behind
get_from_cache(c, key, t) ==
    IF ~InCache(c, key)
    THEN [result |-> None, cache |-> c]
    ELSE IF t > Entry(c, key).expires_at
         THEN [result |-> None, cache |-> Del(c, key)]
         ELSE [result |-> Some(Entry(c, key).data), cache |-> c]

\* oldest_key, were it max in place of min
oldest_key_max(c) ==
    LET most(i) == \A j \in 1..Len(c) : c[i].expires_at >= c[j].expires_at
        first == CHOOSE i \in 1..Len(c) :
                    most(i) /\ \A j \in 1..(i - 1) : ~most(j)
    IN  c[first].key

\* oldest_key, were it to take the first key of the dict whatever its expiry
oldest_key_first(c) == c[1].key

\* min(cache.keys(), key=lambda k: cache[k]["expires_at"]): the first key, in
\* iteration order, whose expiry is the least
oldest_key(c) ==
    LET least(i) == \A j \in 1..Len(c) : c[i].expires_at <= c[j].expires_at
        first == CHOOSE i \in 1..Len(c) :
                    least(i) /\ \A j \in 1..(i - 1) : ~least(j)
    IN  c[first].key

\* set_cache, were its capacity test > in place of >=
set_cache_late(c, key, data, t) ==
    LET kept == IF Len(c) > CACHE_MAX_SIZE THEN Del(c, oldest_key(c)) ELSE c
    IN  Put(kept, key, [key |-> key, data |-> data,
                        expires_at |-> t + CACHE_TTL_SECONDS])

\* set_cache, were it to insert without evicting
set_cache_no_evict(c, key, data, t) ==
    Put(c, key, [key |-> key, data |-> data, expires_at |-> t + CACHE_TTL_SECONDS])

\* set_cache(key, data) called at time t: the cache it leaves behind
set_cache(c, key, data, t) ==
    LET kept == IF Len(c) >= CACHE_MAX_SIZE THEN Del(c, oldest_key(c)) ELSE c
    IN  Put(kept, key, [key |-> key, data |-> data,
                        expires_at |-> t + CACHE_TTL_SECONDS])

(***************************************************************************)
(* Strings.  Cache keys, language tags and video ids are TLA+ strings.     *)
(***************************************************************************)
\* sep.join(strs)
RECURSIVE Join(_, _)
Join(strs, sep) ==
    IF Len(strs) = 0 THEN ""
    ELSE IF Len(strs) = 1 THEN strs[1]
    ELSE strs[1] \o sep \o Join(Tail(strs), sep)

\* f"{video_id}:{lang}"
get_cache_key(video_id, lang) == video_id \o ":" \o lang

(***************************************************************************)
(* The transcript provider (youtube_transcript_api), an external           *)
(* collaborator.  What it does for one request is an input of the request: *)
(*   list          "ok" or the exception list_transcripts raises           *)
(*   catalogue     the tracks of the video, in enumeration order           *)
(*   find_fault    an exception find_transcript raises instead of looking  *)
(*   translate_fault  whether translate fails for an unforeseen reason     *)
(*   fetch         "ok" or the exception fetch raises                      *)
(*   data          the timed entries fetch returns                         *)
(*   message       str(e) of an untyped exception, as a sequence of        *)
(*                 characters                                              *)
(***************************************************************************)
TypedErrors == {"TranscriptsDisabled", "NoTranscriptFound", "VideoUnavailable",
                "TooManyRequests"}
Errors == TypedErrors \cup {"Exception"}

Track(code, targets) == [language_code |-> code, translation_languages |-> targets]

\* transcript_list.find_transcript([lang])
find_transcript(catalogue, lang, find_fault) ==
    IF find_fault # None
    THEN [ok |-> FALSE, error |-> find_fault[1]]
    ELSE IF \E i \in 1..Len(catalogue) : catalogue[i].language_code = lang
         THEN [ok |-> TRUE,
               track |-> [language_code |-> lang, translated_from |-> None]]
         ELSE [ok |-> FALSE, error |-> "NoTranscriptFound"]

\* track.translate(lang)
translate(track, lang, translate_fault) ==
    IF ~translate_fault /\ lang \in track.translation_languages
    THEN [ok |-> TRUE,
          track |-> [language_code |-> lang,
                     translated_from |-> Some(track.language_code)]]
    ELSE [ok |-> FALSE, error |-> "Exception"]

(***************************************************************************)
(* get_transcript, main.py 120-300.                                        *)
(***************************************************************************)
\* authorized, were it to check only that the header is there
authorized_if_present(api_key, x_api_key) ==
    api_key = "" \/ (x_api_key # None /\ x_api_key[1] # "")

\* 138-139: the request passes the API key check
authorized(api_key, x_api_key) ==
    api_key = "" \/ (x_api_key # None /\ x_api_key[1] # "" /\ x_api_key[1] = api_key)

\* 147
valid_format(format) == format \in {"text", "json"}

\* 154-157
languages_of(lang) ==
    IF lang # None /\ lang[1] # "" THEN <<lang[1]>>
    ELSE <<"pt-BR", "pt", "pt-PT", "en">>

\* resolve, were it to go on to the next language without trying to translate
RECURSIVE resolve_no_translate(_, _, _, _, _)
resolve_no_translate(languages, i, catalogue, find_fault, translate_fault) ==
    IF i > Len(languages)
    THEN [transcript |-> None, language_used |-> None, calls |-> << >>]
    ELSE
      LET preferred_lang == languages[i]
          found == find_transcript(catalogue, preferred_lang, find_fault)
          rest == resolve_no_translate(languages, i + 1, catalogue, find_fault,
                                       translate_fault)
          find_call == <<[call |-> "find_transcript", arg |-> preferred_lang]>>
      IN  IF found.ok
          THEN [transcript |-> Some(found.track),
                language_used |-> Some(preferred_lang),
                calls |-> find_call]
          ELSE [rest EXCEPT !.calls = find_call \o @]

\* 187-204: the fallback loop over the languages from position i on; the
\* selected transcript, language_used and the provider calls made
RECURSIVE resolve(_, _, _, _, _)
resolve(languages, i, catalogue, find_fault, translate_fault) ==
    IF i > Len(languages)
    THEN [transcript |-> None, language_used |-> None, calls |-> << >>]
    ELSE
      LET preferred_lang == languages[i]
          found == find_transcript(catalogue, preferred_lang, find_fault)
          rest == resolve(languages, i + 1, catalogue, find_fault, translate_fault)
          find_call == <<[call |-> "find_transcript", arg |-> preferred_lang]>>
          translate_call == <<[call |-> "translate", arg |-> preferred_lang]>>
      IN  IF found.ok
          THEN [transcript |-> Some(found.track),
                language_used |-> Some(preferred_lang),
                calls |-> find_call]
          ELSE IF found.error \in {"NoTranscriptFound", "TranscriptsDisabled"}
          THEN IF Len(catalogue) > 0
               THEN LET translated ==
                          translate(catalogue[1], preferred_lang, translate_fault)
                    IN  IF translated.ok
                        THEN [transcript |-> Some(translated.track),
                              language_used |-> Some(preferred_lang),
                              calls |-> find_call \o translate_call]
                        ELSE [rest EXCEPT
                                !.calls = find_call \o translate_call \o @]
               ELSE [rest EXCEPT !.calls = find_call \o @]
          ELSE [rest EXCEPT !.calls = find_call \o @]

\* 225-232
segments_of(transcript_data) ==
    [n \in 1..Len(transcript_data) |->
        [text |-> transcript_data[n].text,
         start |-> transcript_data[n].start,
         duration |-> IF "duration" \in DOMAIN transcript_data[n]
                      THEN transcript_data[n].duration ELSE 0]]

\* 213-232: the result dict
build_result(video_id, transcript_data, language_used, request_id, format) ==
    LET result ==
          [video_id |-> video_id,
           text |-> Join([n \in 1..Len(transcript_data) |-> transcript_data[n].text], " "),
           language_used |-> IF language_used # None /\ language_used[1] # ""
                             THEN language_used[1] ELSE "unknown",
           request_id |-> request_id]
    IN  IF format = "json"
        THEN result @@ [segments |-> segments_of(transcript_data)]
        ELSE result

\* 168-174 and 240-247: the response body for the requested format
project(result, format, request_id) ==
    IF format = "text"
    THEN [video_id |-> result.video_id, text |-> result.text,
          request_id |-> request_id]
    ELSE result

\* error_msg[:100]
DetailLimit == 100

\* Truncate, were the slice [:100] missing
Truncate_whole(msg) == msg

Truncate(msg) == SubSeq(msg, 1, IF Len(msg) < DetailLimit THEN Len(msg) ELSE DetailLimit)

Unknown == <<"E","r","r","o"," ","d","e","s","c","o","n","h","e","c","i","d","o">>

\* classify, were the handler of NoTranscriptFound missing
classify_no_not_found(error, message, request_id) ==
    CASE error = "TranscriptsDisabled" ->
            [status |-> 404,
             body |-> [error |-> "no_transcript", request_id |-> request_id]]
      [] error = "VideoUnavailable" ->
            [status |-> 404,
             body |-> [error |-> "video_unavailable", request_id |-> request_id]]
      [] error = "TooManyRequests" ->
            [status |-> 429,
             body |-> [error |-> "rate_limited", request_id |-> request_id]]
      [] OTHER ->
            [status |-> 500,
             body |-> [error |-> "internal_error",
                       detail |-> IF Len(message) > 0 THEN Truncate(message)
                                  ELSE Unknown,
                       request_id |-> request_id]]

\* 249-300: the HTTPException an exception raised in the try block becomes
classify(error, message, request_id) ==
    CASE error \in {"TranscriptsDisabled", "NoTranscriptFound"} ->
            [status |-> 404,
             body |-> [error |-> "no_transcript", request_id |-> request_id]]
      [] error = "VideoUnavailable" ->
            [status |-> 404,
             body |-> [error |-> "video_unavailable", request_id |-> request_id]]
      [] error = "TooManyRequests" ->
            [status |-> 429,
             body |-> [error |-> "rate_limited", request_id |-> request_id]]
      [] OTHER ->
            [status |-> 500,
             body |-> [error |-> "internal_error",
                       detail |-> IF Len(message) > 0 THEN Truncate(message)
                                  ELSE Unknown,
                       request_id |-> request_id]]

(***************************************************************************)
(* The service: requests arrive one after another (the handler has no      *)
(* await between its cache read and its cache write) and time passes.      *)
(*   resp    the last request (req), what the provider did for it as far   *)
(*           as it was asked (prov), the provider calls made (calls) and   *)
(*           the response (status, body);                                  *)
(*   origin  a history variable: for each key in the cache, the video id   *)
(*           and language list of the request that wrote the entry;        *)
(*   inflight  the requests the server has accepted and not yet answered,  *)
(*           empty where requests are taken one after another.             *)
(***************************************************************************)
Idle == [op |-> "tick"]

\* time passes between calls
Tick ==
    /\ now < MaxTime
    /\ now' = now + 1
    /\ resp' = Idle
    /\ UNCHANGED <<cache, API_KEY, CACHE_MAX_SIZE, origin, inflight>>

\* stamp, were the request id written into the dict the cache holds
stamp_in_place(cached_result, request_id) ==
    [result |-> [cached_result EXCEPT !.request_id = request_id],
     cached_result |-> [cached_result EXCEPT !.request_id = request_id]]

\* 164-165: result = cached_result.copy(); result["request_id"] = request_id.
\* cached_result is the dict the cache entry holds, not a copy of it: what
\* the statements leave in result and in cached_result
stamp(cached_result, request_id) ==
    [result |-> [cached_result EXCEPT !.request_id = request_id],
     cached_result |-> cached_result]

\* Truthy, were the test never to take what the cache returned for a hit
Truthy_never(cached_result) == FALSE

\* if cached_result:
Truthy(cached_result) == cached_result # None /\ DOMAIN cached_result[1] # {}

\* one way the provider behaves for a request
Behaviour(list, message, catalogue, find_fault, translate_fault, fetch, data) ==
    [list |-> list, message |-> message, catalogue |-> catalogue,
     find_fault |-> find_fault, translate_fault |-> translate_fault,
     fetch |-> fetch, data |-> data]

\* the provider was not asked
NotAsked == Behaviour("", << >>, << >>, None, FALSE, "", << >>)

Reply(req, prov, status, body, calls, hit, cache_key) ==
    resp' = [op |-> "get_transcript", req |-> req, prov |-> prov,
             status |-> status, body |-> body, calls |-> calls, hit |-> hit,
             cache_key |-> cache_key]

ListCall == <<[call |-> "list_transcripts", arg |-> ""]>>
FetchCall == <<[call |-> "fetch", arg |-> ""]>>

\* Raise, were the error response stored in the cache like a result
Raise_caching(req, prov, error, calls, got, cache_key, d) ==
    LET http == classify(error, prov.message, req.request_id)
        stored == set_cache(got.cache, cache_key, http.body, now + d)
    IN  /\ Reply(req, prov, http.status, http.body, calls, FALSE, Some(cache_key))
        /\ cache' = stored
        /\ now' = now + d
        /\ origin' = [k \in CacheKeys(stored) |->
                        IF k = cache_key
                        THEN [video_id |-> req.video_id,
                              languages |-> languages_of(req.lang)]
                        ELSE origin[k]]

\* 249-300: the try block ended with an exception after the given calls
Raise(req, prov, error, calls, got, cache_key, d) ==
    LET http == classify(error, prov.message, req.request_id)
    IN  /\ Reply(req, prov, http.status, http.body, calls, FALSE, Some(cache_key))
        /\ cache' = got.cache
        /\ now' = now + d
        /\ origin' = [k \in CacheKeys(got.cache) |-> origin[k]]

\* 210-247: the selected transcript was fetched
Succeed(req, prov, languages, r, transcript_data, calls, got, cache_key, d) ==
    LET result == build_result(req.video_id, transcript_data, r.language_used,
                               req.request_id, req.format)
        stored == set_cache(got.cache, cache_key, result, now + d)
    IN  /\ cache' = stored
        /\ now' = now + d
        /\ origin' = [k \in CacheKeys(stored) |->
                        IF k = cache_key
                        THEN [video_id |-> req.video_id, languages |-> languages]
                        ELSE origin[k]]
        /\ Reply(req, prov, 200, project(result, req.format, req.request_id),
                 calls, FALSE, Some(cache_key))

\* Fetch, were a failed fetch tried once more before giving up
Fetch_again(req, languages, got, cache_key, P) ==
    \E d \in 0..MaxDelay, prov \in P :
      /\ now + d <= MaxTime
      /\ IF prov.list # "ok"
         THEN Raise(req, prov, prov.list, ListCall, got, cache_key, d)
         ELSE LET r == resolve(languages, 1, prov.catalogue, prov.find_fault,
                               prov.translate_fault)
                  calls == ListCall \o r.calls
              IN  IF r.transcript = None
                  THEN Raise(req, prov, "NoTranscriptFound", calls, got, cache_key, d)
                  ELSE IF prov.fetch # "ok"
                  THEN Raise(req, prov, prov.fetch, calls \o FetchCall \o FetchCall,
                             got, cache_key, d)
                  ELSE Succeed(req, prov, languages, r, prov.data,
                               calls \o FetchCall, got, cache_key, d)

\* 177-247: the cache missed; the provider, which behaves in one of the ways
\* of P, is asked, and d ticks pass meanwhile
Fetch(req, languages, got, cache_key, P) ==
    \E d \in 0..MaxDelay, prov \in P :
      /\ now + d <= MaxTime
      /\ IF prov.list # "ok"
         THEN Raise(req, prov, prov.list, ListCall, got, cache_key, d)
         ELSE LET r == resolve(languages, 1, prov.catalogue, prov.find_fault,
                               prov.translate_fault)
                  calls == ListCall \o r.calls
              IN  IF r.transcript = None
                  THEN Raise(req, prov, "NoTranscriptFound", calls, got, cache_key, d)
                  ELSE IF prov.fetch # "ok"
                  THEN Raise(req, prov, prov.fetch, calls \o FetchCall,
                             got, cache_key, d)
                  ELSE Succeed(req, prov, languages, r, prov.data,
                               calls \o FetchCall, got, cache_key, d)

\* an input the handler did not read before it answered
Unread == "(unread)"

Request(video_id, lang, format, x_api_key, request_id) ==
    [video_id |-> video_id, lang |-> lang, format |-> format,
     x_api_key |-> x_api_key, request_id |-> request_id]

\* 135-300: the handler, for a request whose inputs are drawn from the sets
\* of I as the handler reads them, and a provider behaving in a way of P
Handle(I, P) ==
    \E x_api_key \in (IF API_KEY = "" THEN {Some(Unread)} ELSE I.api_keys) :
      IF ~authorized(API_KEY, x_api_key)
      THEN /\ Reply(Request(Unread, Some(Unread), Unread, x_api_key, Unread),
                    NotAsked, 401, [error |-> "unauthorized"], << >>, FALSE, None)
           /\ UNCHANGED <<cache, now, origin>>
      ELSE \E format \in I.formats :
        IF ~valid_format(format)
        THEN /\ Reply(Request(Unread, Some(Unread), format, x_api_key, Unread),
                      NotAsked, 400, [error |-> "invalid_format"], << >>, FALSE, None)
             /\ UNCHANGED <<cache, now, origin>>
        ELSE \E video_id \in I.videos, lang \in I.langs, request_id \in I.request_ids :
          LET req == Request(video_id, lang, format, x_api_key, request_id)
              languages == languages_of(lang)
              cache_key == get_cache_key(video_id, Join(languages, ","))
              got == get_from_cache(cache, cache_key, now)
          IN  IF Truthy(got.result)
              THEN LET hit == stamp(got.result[1], request_id)
                   IN  /\ Reply(req, NotAsked, 200,
                                project(hit.result, format, request_id),
                                << >>, TRUE, Some(cache_key))
                       /\ cache' = Put(got.cache, cache_key,
                                       [Entry(got.cache, cache_key)
                                            EXCEPT !.data = hit.cached_result])
                       /\ UNCHANGED <<now, origin>>
              ELSE Fetch(req, languages, got, cache_key, P)

Init ==
    /\ cache = << >>
    /\ now = 0
    /\ API_KEY \in {"", "s3cret"}
    /\ CACHE_MAX_SIZE = 2
    /\ resp = Idle
    /\ origin = << >>
    /\ inflight = << >>

Messages == {<< >>, <<"b", "o", "o", "m">>, [n \in 1..(DetailLimit + 1) |-> "x"]}

Data == << [text |-> "A", start |-> 0, duration |-> 1], [text |-> "B", start |-> 1] >>

\* the provider has the tracks of catalogue and nothing goes wrong
Healthy(catalogue) == Behaviour("ok", << >>, catalogue, None, FALSE, "ok", Data)

(***************************************************************************)
(* Spec: any request (two videos, the default list or a given language,    *)
(* any format, any API key) against a provider that has one English track  *)
(* and may throttle or break.                                              *)
(***************************************************************************)
Inputs ==
    [videos |-> {"v1", "v2"},
     langs |-> {None, Some("en"), Some("pt-BR,pt,pt-PT,en")},
     formats |-> {"text", "json", "xml"},
     api_keys |-> {None, Some("s3cret"), Some("wrong")},
     request_ids |-> {"r1"}]

Provider ==
    { Healthy(<< Track("en", {}) >>),
      Behaviour("TooManyRequests", << >>, << >>, None, FALSE, "", << >>),
      Behaviour("VideoUnavailable", << >>, << >>, None, FALSE, "", << >>),
      Behaviour("ok", <<"b", "o", "o", "m">>, << Track("en", {}) >>, None, FALSE,
                "Exception", << >>) }

\* GET /transcript/{video_id}
GetTranscript ==
    Handle(Inputs, Provider) /\ UNCHANGED <<API_KEY, CACHE_MAX_SIZE, inflight>>

Next == GetTranscript \/ Tick

Spec == Init /\ [][Next]_vars

(***************************************************************************)
(* ResolverSpec: authorized json requests for one video, with differing    *)
(* request ids, against a provider that behaves in any of the ways the     *)
(* fallback loop and the exception handlers distinguish.                   *)
(***************************************************************************)
ResolverInputs ==
    [videos |-> {"v1"},
     langs |-> {None, Some("en")},
     formats |-> {"json"},
     api_keys |-> {Some("s3cret")},
     request_ids |-> {"r1", "r2"}]

Catalogues ==
    { << >>,
      << Track("en", {"pt-BR"}) >>,
      << Track("xx", {}), Track("pt", {}) >> }

ResolverProvider ==
    \* list_transcripts fails
    {Behaviour(e, << >>, << >>, None, FALSE, "", << >>) : e \in TypedErrors}
    \cup {Behaviour("Exception", m, << >>, None, FALSE, "", << >>) : m \in Messages}
    \* the catalogue is listed; find_transcript and translate work or fail
    \cup {Behaviour("ok", << >>, c, ff, tf, "ok", Data) :
            c \in Catalogues,
            ff \in {None, Some("TranscriptsDisabled"), Some("Exception")},
            tf \in BOOLEAN}
    \* a track is selected and fetch fails
    \cup {Behaviour("ok", << >>, << Track("en", {"pt-BR"}) >>, None, FALSE, e, << >>) :
            e \in TypedErrors}
    \cup {Behaviour("ok", m, << Track("en", {"pt-BR"}) >>, None, FALSE,
                    "Exception", << >>) : m \in Messages}

Resolve ==
    Handle(ResolverInputs, ResolverProvider)
        /\ UNCHANGED <<API_KEY, CACHE_MAX_SIZE, inflight>>

ResolverNext == Resolve \/ Tick

ResolverSpec == Init /\ [][ResolverNext]_vars

(***************************************************************************)
(* ConcurrentSpec: several requests in flight on the one event loop of the *)
(* process (uvicorn.run, 305).  A request passes three points: the         *)
(* middleware accepts it and awaits call_next (98-105), get_transcript     *)
(* runs (121-300), the middleware gets the response back and returns it    *)
(* (105-107).  get_transcript is a coroutine without any await and its     *)
(* provider calls are blocking calls, so the loop runs it from its first   *)
(* statement to its return without running anything else; other requests   *)
(* may be accepted, handled and answered before and after it, in any       *)
(* order.  An accepted request is a record with pc "accepted"; a handled   *)
(* one keeps, as history, whether the handler removed an entry of a key    *)
(* other than its own from the cache (evicted).  The requests are          *)
(* authorized json requests for the English transcript of three videos,    *)
(* and the provider has it or throttles.                                   *)
(***************************************************************************)
ConcurrentInputs ==
    [videos |-> {"v1", "v2", "v3"},
     langs |-> {Some("en")},
     formats |-> {"json"},
     api_keys |-> {Some("s3cret")},
     request_ids |-> {"r1"}]

ConcurrentProvider ==
    { Healthy(<< Track("en", {}) >>),
      Behaviour("TooManyRequests", << >>, << >>, None, FALSE, "", << >>) }

\* 98-105: add_request_id up to await call_next(request)
Accept ==
    /\ Len(inflight) < MaxInFlight
    /\ \E video_id \in ConcurrentInputs.videos, lang \in ConcurrentInputs.langs,
          format \in ConcurrentInputs.formats,
          x_api_key \in ConcurrentInputs.api_keys,
          request_id \in ConcurrentInputs.request_ids :
         inflight' = Append(inflight,
                            [pc |-> "accepted",
                             req |-> Request(video_id, lang, format, x_api_key,
                                             request_id)])
    /\ resp' = [op |-> "accept"]
    /\ UNCHANGED <<cache, now, API_KEY, CACHE_MAX_SIZE, origin>>

\* 121-300: the event loop runs get_transcript for one accepted request
Run ==
    \E i \in 1..Len(inflight) :
        /\ inflight[i].pc = "accepted"
        /\ LET q == inflight[i].req
               own == get_cache_key(q.video_id, Join(languages_of(q.lang), ","))
           IN  /\ Handle([videos |-> {q.video_id}, langs |-> {q.lang},
                          formats |-> {q.format}, api_keys |-> {q.x_api_key},
                          request_ids |-> {q.request_id}], ConcurrentProvider)
               /\ inflight' =
                    [inflight EXCEPT
                        ![i] = [pc |-> "handled",
                                evicted |-> (CacheKeys(cache) \ CacheKeys(cache'))
                                                \ {own} # {}]]
        /\ UNCHANGED <<API_KEY, CACHE_MAX_SIZE>>

\* 105-107: call_next returns, the header is set and the response leaves
Respond ==
    \E i \in 1..Len(inflight) :
        /\ inflight[i].pc = "handled"
        /\ inflight' = [n \in 1..(Len(inflight) - 1) |->
                           IF n < i THEN inflight[n] ELSE inflight[n + 1]]
        /\ resp' = [op |-> "respond"]
        /\ UNCHANGED <<cache, now, API_KEY, CACHE_MAX_SIZE, origin>>

ConcurrentNext == Accept \/ Run \/ Respond \/ Tick

ConcurrentSpec == Init /\ [][ConcurrentNext]_vars

(***************************************************************************)
(* What the claims about requests speak of, stated from the request and    *)
(* the provider rather than from the handler.                              *)
(***************************************************************************)
IsRequest(r) == r.op = "get_transcript"

\* the request got past the API key and format checks
Served(r) == IsRequest(r) /\ r.status \notin {400, 401}

\* the ordered language list a request stands for
RequestedLanguages(req) ==
    IF req.lang = None THEN <<"pt-BR", "pt", "pt-PT", "en">> ELSE <<req.lang[1]>>

\* the key of the request's cache entry: the video id, a colon and the
\* languages separated by commas
RequestedKey(req) ==
    IF req.lang = None THEN req.video_id \o ":pt-BR,pt,pt-PT,en"
    ELSE req.video_id \o ":" \o req.lang[1]

\* the x-api-key header is missing or does not match the secret
BadKey(req, secret) == req.x_api_key = None \/ req.x_api_key[1] # secret

\* the segments of Data, with the missing duration defaulted
DataSegments ==
    << [text |-> "A", start |-> 0, duration |-> 1],
       [text |-> "B", start |-> 1, duration |-> 0] >>

(***************************************************************************)
(* C3.  Format projection as claimed: every successful json response has   *)
(* video_id, text, language_used, request_id and the full ordered segment  *)
(* list, from the provider or from the cache; every successful text        *)
(* response has video_id, text and request_id only; every cached result    *)
(* holds the segments, whatever the format of the request that wrote it.   *)
(***************************************************************************)
C3_FormatProjection ==
    /\ (IsRequest(resp) /\ resp.status = 200 /\ resp.req.format = "json") =>
          /\ DOMAIN resp.body =
                {"video_id", "text", "language_used", "segments", "request_id"}
          /\ resp.body.segments = DataSegments
    /\ (IsRequest(resp) /\ resp.status = 200 /\ resp.req.format = "text") =>
          DOMAIN resp.body = {"video_id", "text", "request_id"}
    /\ \A i \in 1..Len(cache) : "segments" \in DOMAIN cache[i].data

(***************************************************************************)
(* C4.  Cache key sensitivity as claimed: a request is only ever served    *)
(* from an entry written by a request with the same video id and the same  *)
(* ordered language list.                                                  *)
(***************************************************************************)
C4_KeySensitivity ==
    (IsRequest(resp) /\ resp.hit) =>
        LET writer == origin[resp.cache_key[1]]
        IN  /\ writer.video_id = resp.req.video_id
            /\ writer.languages = RequestedLanguages(resp.req)

(***************************************************************************)
(* C9.  Auth gate: with a non-empty secret configured, a request whose     *)
(* x-api-key header is missing or different is answered 401 unauthorized,  *)
(* makes no provider call and leaves the cache (entries, stale ones        *)
(* included) and the clock as they were.                                   *)
(***************************************************************************)
C9_AuthGate ==
    [][(IsRequest(resp') /\ API_KEY # "" /\ BadKey(resp'.req, API_KEY)) =>
          /\ resp'.status = 401
          /\ resp'.body = [error |-> "unauthorized"]
          /\ resp'.calls = << >>
          /\ ~resp'.hit
          /\ cache' = cache
          /\ now' = now]_vars

\* a request without the header was rejected while the cache held a stale
\* entry and a fresh one
C9_Witness ==
    /\ IsRequest(resp)
    /\ API_KEY # ""
    /\ resp.req.x_api_key = None
    /\ resp.status = 401
    /\ \E i, j \in 1..Len(cache) :
          now > cache[i].expires_at /\ now < cache[j].expires_at

(***************************************************************************)
(* The provider's side of the fallback, for a listed catalogue.            *)
(***************************************************************************)
\* find_transcript finds an exact track for language L
Exact(prov, L) ==
    /\ prov.find_fault = None
    /\ \E i \in 1..Len(prov.catalogue) : prov.catalogue[i].language_code = L

\* find_transcript reports that there is no exact track for L
NoExact(prov, L) ==
    \/ prov.find_fault = Some("TranscriptsDisabled")
    \/ /\ prov.find_fault = None
       /\ \A i \in 1..Len(prov.catalogue) : prov.catalogue[i].language_code # L

\* there is a first track and translating it into L succeeds
Translates(prov, L) ==
    /\ Len(prov.catalogue) > 0
    /\ ~prov.translate_fault
    /\ L \in prov.catalogue[1].translation_languages

\* language L yields a track
Yields(prov, L) == Exact(prov, L) \/ (NoExact(prov, L) /\ Translates(prov, L))

\* the provider calls made for the languages, between listing and fetching
LanguageCalls(r) ==
    SelectSeq(r.calls, LAMBDA c : c.call \in {"find_transcript", "translate"})

(***************************************************************************)
(* C5.  Resolution order: when the catalogue is listed on a cache miss and *)
(* a result is produced, its language_used is the earliest requested       *)
(* language that yields a track (an exact one, or failing that a           *)
(* translation of the first track); the provider is asked about the        *)
(* languages in the requested order, for each the exact track before the   *)
(* translation, the translation only when there is no exact track, and     *)
(* about no language after the one used.                                   *)
(***************************************************************************)
C5_ResolutionOrder ==
    (IsRequest(resp) /\ resp.status = 200 /\ ~resp.hit) =>
        LET langs == RequestedLanguages(resp.req)
            prov == resp.prov
            used == Entry(cache, RequestedKey(resp.req)).data.language_used
            cs == LanguageCalls(resp)
            Finds(L) == {n \in 1..Len(cs) :
                            cs[n] = [call |-> "find_transcript", arg |-> L]}
            Translations(L) == {n \in 1..Len(cs) :
                                  cs[n] = [call |-> "translate", arg |-> L]}
        IN  \E i \in 1..Len(langs) :
              /\ used = langs[i]
              /\ Yields(prov, langs[i])
              /\ \A j \in 1..(i - 1) : ~Yields(prov, langs[j])
              /\ \A j \in 1..Len(langs) :
                    /\ Cardinality(Finds(langs[j])) = IF j <= i THEN 1 ELSE 0
                    /\ Cardinality(Translations(langs[j])) =
                          IF /\ j <= i
                             /\ NoExact(prov, langs[j])
                             /\ Len(prov.catalogue) > 0
                          THEN 1 ELSE 0
                    /\ \A f \in Finds(langs[j]), t \in Translations(langs[j]) :
                          t = f + 1
                    /\ \A k \in 1..(j - 1) :
                          \A f \in Finds(langs[j]), g \in Finds(langs[k]) : g < f

\* the default list, no pt-BR track, an en track that translates into pt-BR:
\* pt-BR is used, by translation
C5_Witness ==
    /\ IsRequest(resp) /\ resp.status = 200 /\ ~resp.hit
    /\ resp.req.lang = None
    /\ Exact(resp.prov, "en")
    /\ ~Exact(resp.prov, "pt-BR")
    /\ resp.body.language_used = "pt-BR"
    /\ LanguageCalls(resp) = << [call |-> "find_transcript", arg |-> "pt-BR"],
                                [call |-> "translate", arg |-> "pt-BR"] >>

(***************************************************************************)
(* C8.  Exhaustion: when the catalogue is listed and no requested language *)
(* yields a track (the catalogue may be empty, translate may raise         *)
(* anything), the request fails with 404 no_transcript, not with 500, the  *)
(* body carries no transcript and the provider is not asked to fetch.      *)
(***************************************************************************)
C8_Exhaustion ==
    (/\ IsRequest(resp)
     /\ resp.prov.list = "ok"
     /\ \A j \in 1..Len(RequestedLanguages(resp.req)) :
           ~Yields(resp.prov, RequestedLanguages(resp.req)[j])) =>
        /\ resp.status = 404
        /\ resp.body = [error |-> "no_transcript",
                        request_id |-> resp.req.request_id]
        /\ \A n \in 1..Len(resp.calls) : resp.calls[n].call # "fetch"
        /\ ~InCache(cache, RequestedKey(resp.req))

\* every language of the default list was tried, exact and translated, with
\* translate raising, and the request ended in no_transcript
C8_Witness ==
    /\ IsRequest(resp)
    /\ resp.prov.list = "ok"
    /\ resp.req.lang = None
    /\ resp.prov.translate_fault
    /\ Len(resp.prov.catalogue) > 0
    /\ Len(LanguageCalls(resp)) = 8
    /\ resp.status = 404

(***************************************************************************)
(* C10.  Cache hit short-circuit: a request that is authorized and asks    *)
(* for text or json, and whose key has an entry with its expiry still      *)
(* ahead, is answered 200 with that entry's content (the whole result for  *)
(* json, video_id and text for text, stamped with the request's id),       *)
(* without any provider call and with the cache and the clock untouched.   *)
(***************************************************************************)
C10_HitShortCircuit ==
    [][(/\ Served(resp')
        /\ InCache(cache, RequestedKey(resp'.req))
        /\ now < Entry(cache, RequestedKey(resp'.req)).expires_at) =>
          LET data == Entry(cache, RequestedKey(resp'.req)).data
              body == resp'.body
          IN  /\ resp'.status = 200
              /\ resp'.hit
              /\ resp'.calls = << >>
              /\ cache' = cache
              /\ now' = now
              /\ body.video_id = data.video_id
              /\ body.text = data.text
              /\ body.request_id = resp'.req.request_id
              /\ IF resp'.req.format = "text"
                 THEN DOMAIN body = {"video_id", "text", "request_id"}
                 ELSE /\ DOMAIN body = DOMAIN data
                      /\ \A f \in DOMAIN data \ {"request_id"} : body[f] = data[f]]_vars

\* with a secret configured, a text request was served from an entry that a
\* json request had written
C10_Witness ==
    /\ IsRequest(resp) /\ resp.hit
    /\ API_KEY # ""
    /\ resp.req.format = "text"
    /\ InCache(cache, RequestedKey(resp.req))
    /\ "segments" \in DOMAIN Entry(cache, RequestedKey(resp.req)).data
    /\ now < Entry(cache, RequestedKey(resp.req)).expires_at

\* entry e is in cache c, as it is
Holds(c, e) == \E j \in 1..Len(c) : c[j] = e

\* the request asked the provider to fetch
Fetched(r) == \E n \in 1..Len(r.calls) : r.calls[n].call = "fetch"

(***************************************************************************)
(* C11.  No cache write on failure: a request that ends in an error (401,  *)
(* 400, 404, 429 or 500) leaves no entry in the cache that was not there,  *)
(* as it is, before; an entry appears or changes only through a request    *)
(* for its key that missed the cache, had its transcript fetched and was   *)
(* answered 200.                                                           *)
(***************************************************************************)
C11_NoWriteOnFailure ==
    [][IsRequest(resp') =>
          \A i \in 1..Len(cache') :
              ~Holds(cache, cache'[i]) =>
                  /\ resp'.status = 200
                  /\ ~resp'.hit
                  /\ Fetched(resp')
                  /\ cache'[i].key = RequestedKey(resp'.req)]_vars

\* fetch failed for a request whose key is not in the cache, beside an entry
\* of another key
C11_Witness ==
    /\ IsRequest(resp)
    /\ resp.status = 500
    /\ Fetched(resp)
    /\ Len(cache) > 0
    /\ ~InCache(cache, RequestedKey(resp.req))

\* the catalogue lookup of the request was made and raised
ListFailed(r) ==
    /\ IsRequest(r)
    /\ Len(r.calls) > 0
    /\ r.calls[1] = ListCall[1]
    /\ r.prov.list # "ok"

\* d is what the first DetailLimit characters of message m are
IsPrefix(d, m) ==
    /\ Len(d) <= Len(m)
    /\ \A n \in 1..Len(d) : d[n] = m[n]
    /\ Len(d) = Len(m) \/ Len(d) = DetailLimit

(***************************************************************************)
(* C12.  Error classification: a failed catalogue lookup is answered with  *)
(* exactly one classified error.  TranscriptsDisabled and NoTranscriptFound*)
(* give 404 no_transcript, VideoUnavailable gives 404 video_unavailable,   *)
(* TooManyRequests gives 429 rate_limited, and any other exception gives   *)
(* 500 internal_error whose detail is the exception's message cut to at    *)
(* most 100 characters.                                                    *)
(***************************************************************************)
C12_ErrorClassification ==
    ListFailed(resp) =>
        LET e == resp.prov.list
            kind == [status |-> resp.status, error |-> resp.body.error]
        IN  /\ resp.body.request_id = resp.req.request_id
            /\ e \in {"TranscriptsDisabled", "NoTranscriptFound"} =>
                   kind = [status |-> 404, error |-> "no_transcript"]
            /\ e = "VideoUnavailable" =>
                   kind = [status |-> 404, error |-> "video_unavailable"]
            /\ e = "TooManyRequests" =>
                   kind = [status |-> 429, error |-> "rate_limited"]
            /\ e \notin TypedErrors =>
                   /\ kind = [status |-> 500, error |-> "internal_error"]
                   /\ Len(resp.body.detail) <= 100
                   /\ Len(resp.prov.message) > 0 =>
                          IsPrefix(resp.body.detail, resp.prov.message)

\* the lookup raised an untyped exception whose message is longer than 100
\* characters, and the detail of the 500 response has exactly 100
C12_Witness ==
    /\ ListFailed(resp)
    /\ resp.prov.list \notin TypedErrors
    /\ Len(resp.prov.message) > 100
    /\ resp.status = 500
    /\ Len(resp.body.detail) = 100

(***************************************************************************)
(* C13.  Idempotent read: a request whose key has an entry that is not     *)
(* expired is served from it, with the stored values and its own request   *)
(* id, and leaves the whole cache, the stored Result and its request id    *)
(* included, as it was; so repeated reads return the same values.          *)
(***************************************************************************)
C13_IdempotentRead ==
    [][(Served(resp') /\ InCache(cache, RequestedKey(resp'.req))
            /\ now < Entry(cache, RequestedKey(resp'.req)).expires_at) =>
          LET stored == Entry(cache, RequestedKey(resp'.req)).data
          IN  /\ resp'.hit
              /\ resp'.body = [stored EXCEPT !.request_id = resp'.req.request_id]
              /\ cache' = cache]_vars

\* a hit served to a request whose id is not the one stored with the entry
C13_Witness ==
    /\ IsRequest(resp)
    /\ resp.hit
    /\ resp.body.request_id = resp.req.request_id
    /\ Entry(cache, RequestedKey(resp.req)).data.request_id # resp.req.request_id

\* a track was selected and fetching its content raised
FetchFailed(r) == IsRequest(r) /\ Fetched(r) /\ r.prov.fetch # "ok"

(***************************************************************************)
(* C14.  Content fetch failure as claimed: once a track is selected, a     *)
(* failure of fetch, whatever the exception, is answered 500               *)
(* internal_error and never 404 or 429.                                    *)
(***************************************************************************)
C14_FetchFailure ==
    FetchFailed(resp) =>
        /\ resp.status = 500
        /\ resp.body.error = "internal_error"

\* how many times the request made the provider call with the argument
Count(r, call, arg) ==
    Cardinality({n \in 1..Len(r.calls) :
                    r.calls[n].call = call /\ r.calls[n].arg = arg})

\* the place of language L in the request's list
Place(req, L) ==
    CHOOSE n \in 1..Len(RequestedLanguages(req)) : RequestedLanguages(req)[n] = L

(***************************************************************************)
(* C16.  No retry: one request lists the catalogue at most once, fetches   *)
(* at most once, and calls find_transcript and translate at most once for  *)
(* each requested language, and for no language that comes after one that  *)
(* yields a track.  When the listing or the fetch raises, that call is the *)
(* last one the request makes and the request is answered with a           *)
(* classified error.                                                       *)
(***************************************************************************)
C16_NoRetry ==
    IsRequest(resp) =>
        LET langs == RequestedLanguages(resp.req)
            tried == LanguageCalls(resp)
        IN  /\ Count(resp, "list_transcripts", "") <= 1
            /\ Count(resp, "fetch", "") <= 1
            /\ \A n \in 1..Len(tried) :
                   /\ Count(resp, tried[n].call, tried[n].arg) = 1
                   /\ \E m \in 1..Len(langs) : langs[m] = tried[n].arg
                   /\ \A m \in 1..(Place(resp.req, tried[n].arg) - 1) :
                          ~Yields(resp.prov, langs[m])
            /\ ListFailed(resp) =>
                   /\ Len(resp.calls) = 1
                   /\ resp.status \in {404, 429, 500}
            /\ FetchFailed(resp) =>
                   /\ resp.calls[Len(resp.calls)].call = "fetch"
                   /\ resp.status \in {404, 429, 500}

\* of the default list only the first language was tried, by find_transcript
\* and then by translate, which yielded; the one fetch raised an untyped
\* exception and the request ended there
C16_Witness ==
    /\ FetchFailed(resp)
    /\ resp.req.lang = None
    /\ LanguageCalls(resp) = << [call |-> "find_transcript", arg |-> "pt-BR"],
                                [call |-> "translate", arg |-> "pt-BR"] >>
    /\ Count(resp, "fetch", "") = 1
    /\ resp.status = 500

(***************************************************************************)
(* C17.  Capacity under concurrency: with several requests in flight, in   *)
(* every order in which the event loop can run their handlers, the cache   *)
(* never holds more than CACHE_MAX_SIZE entries, and a handler evicts at   *)
(* most one entry, only from a cache at capacity, and that entry is one    *)
(* that is present when the handler writes and whose expiry is the least   *)
(* of the entries present then.                                            *)
(***************************************************************************)
C17_ConcurrentCapacity ==
    [][IsRequest(resp') =>
          LET own == RequestedKey(resp'.req)
              others == CacheKeys(cache) \ {own}
              evicted == others \ CacheKeys(cache')
          IN  /\ Len(cache') <= CACHE_MAX_SIZE
              /\ Cardinality(CacheKeys(cache')) = Len(cache')
              /\ Cardinality(evicted) <= 1
              /\ \A gone \in evicted :
                     /\ resp'.status = 200 /\ ~resp'.hit
                     /\ Cardinality(others) >= CACHE_MAX_SIZE
                     /\ \A k \in others :
                            Entry(cache, gone).expires_at <= Entry(cache, k).expires_at]_vars

\* a handler has evicted an entry while another request was accepted and
\* not yet handled
C17_Witness ==
    \E i, j \in 1..Len(inflight) :
        /\ inflight[i].pc = "handled"
        /\ inflight[i].evicted
        /\ inflight[j].pc = "accepted"
        /\ Len(cache) = CACHE_MAX_SIZE

(***************************************************************************)
(* C18.  Writes only on miss: an entry is written only by a request for    *)
(* its key, at a moment when the cache has no entry for that key: there    *)
(* was none, or the request's own get_from_cache has just removed an       *)
(* expired one.  The entry gets the expiry of the time of writing plus the *)
(* TTL, and neither a hit nor anything else changes an entry while it is   *)
(* in the cache.                                                           *)
(***************************************************************************)
C18_WriteOnlyOnMiss ==
    [][/\ \A k \in CacheKeys(cache') :
            (~InCache(cache, k) \/ Entry(cache', k) # Entry(cache, k)) =>
                /\ IsRequest(resp')
                /\ ~resp'.hit
                /\ resp'.cache_key = Some(k)
                /\ InCache(cache, k) => now >= Entry(cache, k).expires_at
                /\ Entry(cache', k).expires_at = now' + CACHE_TTL_SECONDS
       /\ (IsRequest(resp') /\ resp'.hit) => cache' = cache]_vars

\* a hit on an entry written at an earlier time, whose expiry is still the
\* time of writing plus the TTL
C18_Witness ==
    /\ IsRequest(resp)
    /\ resp.hit
    /\ InCache(cache, RequestedKey(resp.req))
    /\ Entry(cache, RequestedKey(resp.req)).expires_at < now + CACHE_TTL_SECONDS
    /\ Len(cache) = CACHE_MAX_SIZE

(***************************************************************************)
(* The cache as a unit: set_cache and get_from_cache called with any key,  *)
(* in any order, at any time.  resp records the last call, with the cache  *)
(* as it was when the call was made (pre); origin records, for each key in *)
(* the cache, the time at which set_cache wrote its entry (written_at).    *)
(***************************************************************************)
UnitKeys == {"k1", "k2", "k3", "k4"}
UnitValues == {[video_id |-> "v1", text |-> "A"], [video_id |-> "v2", text |-> "B"]}

CacheInit ==
    /\ cache = << >>
    /\ now = 0
    /\ API_KEY = ""
    /\ CACHE_MAX_SIZE \in {2, 3}
    /\ resp = Idle
    /\ origin = << >>
    /\ inflight = << >>

SetCacheCall ==
    \E key \in UnitKeys, data \in UnitValues :
        /\ cache' = set_cache(cache, key, data, now)
        /\ resp' = [op |-> "set_cache", key |-> key, result |-> Some(data),
                    pre |-> cache]
        /\ origin' = [k \in CacheKeys(cache') |->
                        IF k = key THEN [written_at |-> now] ELSE origin[k]]
        /\ UNCHANGED <<now, API_KEY, CACHE_MAX_SIZE, inflight>>

GetFromCacheCall ==
    \E key \in UnitKeys :
        LET got == get_from_cache(cache, key, now)
        IN  /\ cache' = got.cache
            /\ resp' = [op |-> "get_from_cache", key |-> key,
                        result |-> got.result, pre |-> cache]
            /\ origin' = [k \in CacheKeys(got.cache) |-> origin[k]]
            /\ UNCHANGED <<now, API_KEY, CACHE_MAX_SIZE, inflight>>

CacheNext == SetCacheCall \/ GetFromCacheCall \/ Tick

CacheSpec == CacheInit /\ [][CacheNext]_vars

\* the least expiry among the entries of c
MinExpiry(c) ==
    CHOOSE m \in {c[i].expires_at : i \in 1..Len(c)} :
        \A i \in 1..Len(c) : m <= c[i].expires_at

\* the entries of the keys other than key are the same in c and d
SameElsewhere(c, d, key) ==
    \A k \in (CacheKeys(c) \cup CacheKeys(d)) \ {key} :
        InCache(c, k) /\ InCache(d, k) /\ Entry(c, k) = Entry(d, k)

(***************************************************************************)
(* C1.  After every set_cache call, whatever the keys and the times, the   *)
(* number of distinct keys in the cache is at most CACHE_MAX_SIZE (and the *)
(* cache holds one entry per key).                                         *)
(***************************************************************************)
C1_Capacity ==
    /\ Cardinality(CacheKeys(cache)) <= CACHE_MAX_SIZE
    /\ Cardinality(CacheKeys(cache)) = Len(cache)

\* a set_cache of a new key into a full cache has just returned
C1_Witness ==
    /\ resp.op = "set_cache"
    /\ Len(resp.pre) = CACHE_MAX_SIZE
    /\ ~InCache(resp.pre, resp.key)
    /\ Len(cache) = CACHE_MAX_SIZE

(***************************************************************************)
(* C2.  TTL correctness as claimed: set_cache at time T stores expiry      *)
(* T + TTL, and a get_from_cache of a present key at time t returns the    *)
(* value when T <= t < T + TTL and reports absent when t >= T + TTL,       *)
(* t = T + TTL included.                                                   *)
(***************************************************************************)
C2_TTL ==
    /\ resp.op = "set_cache" =>
          Entry(cache, resp.key).expires_at = now + CACHE_TTL_SECONDS
    /\ (resp.op = "get_from_cache" /\ InCache(resp.pre, resp.key)) =>
          LET e == Entry(resp.pre, resp.key)
              T == e.expires_at - CACHE_TTL_SECONDS
          IN  /\ (T <= now /\ now < T + CACHE_TTL_SECONDS) =>
                    resp.result = Some(e.data)
              /\ now >= T + CACHE_TTL_SECONDS =>
                    resp.result = None /\ ~InCache(cache, resp.key)

(***************************************************************************)
(* C6.  A set_cache of a key that is not present, made when the cache is   *)
(* at capacity, removes exactly one entry, one whose expiry is the least   *)
(* of the entries present before the call; the others stay as they were.   *)
(***************************************************************************)
C6_Eviction ==
    (/\ resp.op = "set_cache"
     /\ ~InCache(resp.pre, resp.key)
     /\ Len(resp.pre) >= CACHE_MAX_SIZE) =>
        \E gone \in CacheKeys(resp.pre) :
            /\ Entry(resp.pre, gone).expires_at = MinExpiry(resp.pre)
            /\ CacheKeys(cache) = (CacheKeys(resp.pre) \ {gone}) \cup {resp.key}
            /\ \A k \in CacheKeys(resp.pre) \ {gone} :
                   Entry(cache, k) = Entry(resp.pre, k)

\* an eviction among entries of different expiries, the least not the first
C6_Witness ==
    /\ resp.op = "set_cache"
    /\ ~InCache(resp.pre, resp.key)
    /\ Len(resp.pre) >= CACHE_MAX_SIZE
    /\ \E i, j \in 1..Len(resp.pre) :
           resp.pre[i].expires_at < resp.pre[j].expires_at
    /\ resp.pre[1].expires_at # MinExpiry(resp.pre)
    /\ Len(cache) = CACHE_MAX_SIZE

(***************************************************************************)
(* C7.  set_cache evicts only when the cache is at capacity and the key is *)
(* not present; when the key is present no entry is evicted, the entries   *)
(* of the other keys are unchanged and the key's entry gets expiry         *)
(* now + TTL.                                                              *)
(***************************************************************************)
C7_EvictOnlyNewKeys ==
    resp.op = "set_cache" =>
        /\ (\E k \in CacheKeys(resp.pre) : k # resp.key /\ ~InCache(cache, k)) =>
              (Len(resp.pre) >= CACHE_MAX_SIZE /\ ~InCache(resp.pre, resp.key))
        /\ InCache(resp.pre, resp.key) =>
              /\ CacheKeys(cache) = CacheKeys(resp.pre)
              /\ SameElsewhere(resp.pre, cache, resp.key)
              /\ Entry(cache, resp.key).expires_at = now + CACHE_TTL_SECONDS
              /\ Entry(cache, resp.key).data = resp.result[1]

(***************************************************************************)
(* C15.  Lazy expiry frame: get_from_cache(key) removes at most the entry  *)
(* of key, only when that entry has expired, and then reports absent; it   *)
(* leaves the entries of all other keys, and an entry of key it does not   *)
(* remove, as they were.  Apart from that, entries leave the cache only by *)
(* a set_cache made at capacity: the passing of time removes nothing.      *)
(***************************************************************************)
C15_LazyExpiryFrame ==
    [][/\ resp'.op = "get_from_cache" =>
            /\ SameElsewhere(cache, cache', resp'.key)
            /\ InCache(cache', resp'.key) =>
                  /\ InCache(cache, resp'.key)
                  /\ Entry(cache', resp'.key) = Entry(cache, resp'.key)
            /\ (InCache(cache, resp'.key) /\ ~InCache(cache', resp'.key)) =>
                  /\ now >= Entry(cache, resp'.key).expires_at
                  /\ resp'.result = None
       /\ resp'.op = "set_cache" =>
            ((\E k \in CacheKeys(cache) : ~InCache(cache', k)) =>
                 Len(cache) >= CACHE_MAX_SIZE)
       /\ resp'.op = "tick" => cache' = cache]_vars

\* get_from_cache has just removed the expired entry of its key from a full
\* cache in which another expired entry stays
C15_Witness ==
    /\ resp.op = "get_from_cache"
    /\ Len(resp.pre) = CACHE_MAX_SIZE
    /\ InCache(resp.pre, resp.key)
    /\ ~InCache(cache, resp.key)
    /\ \E k \in CacheKeys(cache) : now > Entry(cache, k).expires_at

\* the key whose entry a set_cache step at capacity deletes before it
\* writes: the key that is gone or, when the written key itself was
\* deleted and put back, that key
Evicted ==
    IF CacheKeys(cache) \ CacheKeys(cache') # {}
    THEN CHOOSE k \in CacheKeys(cache) : ~InCache(cache', k)
    ELSE resp'.key

(***************************************************************************)
(* C19.  Eviction prefers stale entries: the entry a set_cache at capacity *)
(* removes is one written least recently, no entry present was written     *)
(* before it, and it is an expired entry whenever the cache holds an       *)
(* expired entry, so that no live entry is evicted in place of an expired  *)
(* one.                                                                    *)
(***************************************************************************)
C19_EvictStaleFirst ==
    [][(resp'.op = "set_cache" /\ Len(cache) >= CACHE_MAX_SIZE) =>
          /\ InCache(cache, Evicted)
          /\ \A k \in CacheKeys(cache) :
                 origin[Evicted].written_at <= origin[k].written_at
          /\ (\E k \in CacheKeys(cache) : now >= Entry(cache, k).expires_at) =>
                 now >= Entry(cache, Evicted).expires_at]_vars

\* a set_cache of a new key into a full cache that held an expired entry,
\* not in the first place, and a live one: the expired one is gone and the
\* live one stays
C19_Witness ==
    /\ resp.op = "set_cache"
    /\ Len(resp.pre) = CACHE_MAX_SIZE
    /\ ~InCache(resp.pre, resp.key)
    /\ now < resp.pre[1].expires_at
    /\ InCache(cache, resp.pre[1].key)
    /\ \E i \in 2..Len(resp.pre) :
           /\ now >= resp.pre[i].expires_at
           /\ ~InCache(cache, resp.pre[i].key)

====
